---- MODULE Spec2Model ----
(***************************************************************************)
(* Book recommendation system: data loader, popularity / collaborative /   *)
(* content / hybrid recommenders and the BookRecommendationSystem facade.  *)
(*                                                                         *)
(* Tables are sequences of records in row order.  Similarities are cosine  *)
(* similarities quantised to integers 0..SimScale; hybrid weights are      *)
(* integers in units of 0.5, so a hybrid score is an integer in units of   *)
(* 0.5/SimScale.  Average ratings are integers in tenths (round(1)).       *)
(***************************************************************************)
EXTENDS Integers, Sequences, FiniteSets, TLC

\* ---------------------------------------------------------------- bounds
NumBooks == 4          \* rows of the Books file
MaxN == 2              \* largest n passed to a query
SimScale == 10         \* resolution of a similarity score

\* ------------------------------------------------- program constants
\* (thresholds scaled down to the size of the modelled interaction log)
MinBookRatings == 2    \* min_book_ratings
MinUserRatings == 2    \* min_user_ratings
DefaultMinRatings == 2 \* min_ratings default of PopularityRecommender.recommend
GetPopularBooksDefault == 2 \* min_ratings default of get_popular_books

NoRating == 0 - 1
DroppedIsbn == 0       \* a book of the Books file that cleaning drops
MinYear == 1900
MaxYear == 2025
MinAge == 15
MaxAge == 100

\* The three input files, in the order load_data reads them.
AllFiles == {"books", "users", "ratings"}

Isbns == 1..NumBooks
QueryIsbns == Isbns \cup {DroppedIsbn}
Ns == 0..MaxN
Methods == {"popularity", "collaborative", "content", "hybrid"}
MethodInputs == Methods \cup {"bogus"}
\* <<collab_weight, content_weight>> in units of 0.5
WeightInputs == { <<1, 1>>, <<2, 1>>, <<1, 0>>, <<0, 2>> }

\* ------------------------------------------------------------ helpers
RECURSIVE SumSeq(_)
SumSeq(s) == IF s = <<>> THEN 0 ELSE Head(s) + SumSeq(Tail(s))

SeqToSet(s) == {s[i] : i \in 1..Len(s)}

HeadN(s, n) == SubSeq(s, 1, IF n < Len(s) THEN n ELSE Len(s))

RemoveAt(s, i) == SubSeq(s, 1, i - 1) \o SubSeq(s, i + 1, Len(s))

\* Ascending sequence of a finite set of integers.
RECURSIVE SortedSeq(_)
SortedSeq(S) ==
    IF S = {} THEN <<>>
    ELSE LET m == CHOOSE x \in S : \A y \in S : x <= y
         IN <<m>> \o SortedSeq(S \ {m})

\* sort_values(..., ascending=False) on one column: rows in non-increasing
\* score, equal scores keeping their relative order.
RECURSIVE SortByScoreDesc(_)
SortByScoreDesc(rows) ==
    IF rows = <<>> THEN <<>>
    ELSE LET best == CHOOSE i \in 1..Len(rows) :
                        \A j \in 1..Len(rows) :
                            \/ rows[i].score > rows[j].score
                            \/ rows[i].score = rows[j].score /\ i <= j
         IN <<rows[best]>> \o SortByScoreDesc(RemoveAt(rows, best))

\* ------------------------------------------------------- input files
\* Text fields are sequences of characters; a word character stands for a
\* token of the TF-IDF vocabulary.
Terms == <<"a", "b", "c", "k", "m", "p", "q">>

Lower(c) == IF c = "A" THEN "a" ELSE c

TitlePool == << <<"a", "b">>, <<"b", ".">>, <<"A">>, <<"-">> >>
AuthorPool == << <<"k">>, <<"k">>, <<"m">>, <<>> >>
PublisherPool == << <<"p">>, <<"q">>, <<"p">>, <<>> >>

PoolAt(pool, i) == pool[((i - 1) % Len(pool)) + 1]

\* Row order of the Books file (not sorted by ISBN).
BookFileOrder == [k \in 1..NumBooks |-> NumBooks + 1 - k]

\* The Books file: NumBooks well-formed rows and one row with year 0.
BooksFile ==
    [k \in 1..NumBooks |->
        [isbn |-> BookFileOrder[k],
         title |-> PoolAt(TitlePool, BookFileOrder[k]),
         author |-> PoolAt(AuthorPool, BookFileOrder[k]),
         publisher |-> PoolAt(PublisherPool, BookFileOrder[k]),
         year |-> 1990 + BookFileOrder[k]]]
    \o << [isbn |-> DroppedIsbn, title |-> <<"a">>, author |-> <<"k">>,
           publisher |-> <<"p">>, year |-> 0] >>

\* The ratings one book gets from users 1, 2 and 3 (NoRating: none).
RatingProfiles ==
    { <<2, 1, NoRating>>, <<0, 2, NoRating>>, <<0, 0, NoRating>>,
      <<2, NoRating, NoRating>>, <<NoRating, NoRating, NoRating>>,
      <<NoRating, NoRating, 2>> }

\* Ratings file: one row per rated (user, book), ordered by user then ISBN.
RECURSIVE RatingsRows(_, _, _)
RatingsRows(prof, u, b) ==
    IF u > Len(prof[1]) THEN <<>>
    ELSE IF b > NumBooks THEN RatingsRows(prof, u + 1, 1)
    ELSE (IF prof[b][u] = NoRating THEN <<>>
          ELSE << [user |-> u, isbn |-> b, rating |-> prof[b][u]] >>)
         \o RatingsRows(prof, u, b + 1)

\* The first row rates the book that cleaning drops.
RatingsFile(prof) ==
    << [user |-> 1, isbn |-> DroppedIsbn, rating |-> 2] >>
    \o RatingsRows(prof, 1, 1)

\* The Users file: one row per user, the second with an invalid age.
UsersFile ==
    << [user |-> 1, age |-> 30], [user |-> 2, age |-> 0], [user |-> 3, age |-> 15] >>

VARIABLES
    files_present,        \* the CSV files that can be read
    csv_books,            \* content of the Books file
    csv_users,            \* content of the Users file
    csv_ratings,          \* content of the Ratings file
    set_fields,           \* names of the table fields that are not None
    books,                \* DataLoader.books
    users,                \* DataLoader.users
    ratings,              \* DataLoader.ratings
    book_rating_merged,   \* DataLoader.book_rating_merged
    books_with_rating,    \* DataLoader/system books_with_rating (the catalog)
    filtered_ratings,     \* BookRecommendationSystem.filtered_ratings
    user_item_columns,    \* columns of CollaborativeRecommender.user_item_matrix
    user_item_matrix,     \* cells of CollaborativeRecommender.user_item_matrix
    item_index,           \* index of user_item_matrix / item_similarity_df
    item_similarity_df,   \* CollaborativeRecommender.item_similarity_df
    content_index,        \* index of content_similarity_df
    content_similarity_df,\* ContentRecommender.content_similarity_df
    recommenders,         \* names of the recommender fields that are set
    phase,                \* "constructed", "ready" or "failed"
    call,                 \* the last query call
    result                \* its outcome

vars == << files_present, csv_books, csv_users, csv_ratings, set_fields,
           books, users, ratings,
           book_rating_merged, books_with_rating, filtered_ratings,
           user_item_columns, user_item_matrix,
           item_index, item_similarity_df, content_index,
           content_similarity_df, recommenders, phase, call, result >>

fileVars == << files_present, csv_books, csv_users, csv_ratings >>

\* The models the recommenders hold and the progress of initialize().
modelVars == << filtered_ratings, user_item_columns, user_item_matrix,
                item_index, item_similarity_df, content_index,
                content_similarity_df, recommenders, phase >>

dataVars == << files_present, csv_books, csv_users, csv_ratings, set_fields,
               books, users, ratings,
               book_rating_merged, books_with_rating, filtered_ratings,
               user_item_columns, user_item_matrix,
               item_index, item_similarity_df, content_index,
               content_similarity_df, recommenders, phase >>

\* --------------------------------------------------------- DataLoader
\* Variant: load_data reports every table as read.
ReadableIgnoringFailure(files) == AllFiles

\* Variant: each file is read under its own try / except.
ReadableAnyFile(files) == files

\* load_data: the tables assigned before the first read_csv that fails.
ReadableInOrder(files) ==
    IF "books" \notin files THEN {}
    ELSE IF "users" \notin files THEN {"books"}
    ELSE IF "ratings" \notin files THEN {"books", "users"}
    ELSE AllFiles

\* preprocess_users: keep the rows whose age is in [15, 100].
PreprocessUsers(usrs) ==
    SelectSeq(usrs, LAMBDA r : r.age >= MinAge /\ r.age <= MaxAge /\ r.age # 0)

\* preprocess_books: keep the rows whose year is in [1900, 2025].
PreprocessBooks(bks) ==
    SelectSeq(bks, LAMBDA r : r.year >= MinYear /\ r.year <= MaxYear /\ r.year # 0)

\* preprocess_ratings: inner merge of ratings with books on ISBN, in the
\* order of the ratings rows.
MergeRatings(rts, bks) ==
    SelectSeq(rts, LAMBDA r : \E k \in 1..Len(bks) : bks[k].isbn = r.isbn)

RatingsOfIsbn(log, isbn) == SelectSeq(log, LAMBDA r : r.isbn = isbn)
RatingsOfUser(log, user) == SelectSeq(log, LAMBDA r : r.user = user)

RatingValues(log) == [k \in 1..Len(log) |-> log[k].rating]

\* mean().round(1) in tenths: round half to even of 10 * sum / count.
RoundedMean10(sum, count) ==
    LET q == (10 * sum) \div count
        r == (10 * sum) % count
    IN IF 2 * r < count THEN q
       ELSE IF 2 * r > count THEN q + 1
       ELSE IF q % 2 = 0 THEN q ELSE q + 1

AverageRating10(log, isbn) ==
    LET own == RatingsOfIsbn(log, isbn)
    IN RoundedMean10(SumSeq(RatingValues(own)), Len(own))

\* create_books_with_rating: inner merge of books with the per-ISBN
\* average, in the order of the books rows.
CreateBooksWithRating(bks, merged) ==
    LET rated == SelectSeq(bks, LAMBDA r : Len(RatingsOfIsbn(merged, r.isbn)) > 0)
    IN [k \in 1..Len(rated) |->
          [isbn |-> rated[k].isbn, title |-> rated[k].title,
           author |-> rated[k].author, publisher |-> rated[k].publisher,
           avg |-> AverageRating10(merged, rated[k].isbn)]]

\* get_filtered_ratings
GetFilteredRatings(merged, min_book_ratings, min_user_ratings) ==
    SelectSeq(merged,
        LAMBDA r : /\ Len(RatingsOfIsbn(merged, r.isbn)) >= min_book_ratings
                   /\ Len(RatingsOfUser(merged, r.user)) >= min_user_ratings)

\* ------------------------------------------------- similarity models
Dot(v, w) == SumSeq([k \in 1..Len(v) |-> v[k] * w[k]])

\* cosine_similarity of two non-negative vectors, quantised to 0..SimScale;
\* 0 when either vector has zero norm.
CosineSimilarity(v, w) ==
    LET d == Dot(v, w)
        n == Dot(v, v) * Dot(w, w)
    IN IF n = 0 THEN 0
       ELSE CHOOSE s \in 0..SimScale :
               /\ s * s * n <= SimScale * SimScale * d * d
               /\ (s + 1) * (s + 1) * n > SimScale * SimScale * d * d
                  \/ s = SimScale

\* pivot_table(index='ISBN', columns='User-ID', fill_value=0): rows and
\* columns are the sorted ISBNs and users of the filtered ratings.
PivotIndex(filtered) == SortedSeq({filtered[k].isbn : k \in 1..Len(filtered)})
PivotColumns(filtered) == SortedSeq({filtered[k].user : k \in 1..Len(filtered)})

PivotCell(filtered, isbn, user) ==
    LET own == SelectSeq(filtered, LAMBDA r : r.isbn = isbn /\ r.user = user)
    IN IF own = <<>> THEN 0 ELSE SumSeq(RatingValues(own)) \div Len(own)

UserItemMatrix(filtered) ==
    LET cols == PivotColumns(filtered)
    IN [i \in SeqToSet(PivotIndex(filtered)) |->
           [c \in 1..Len(cols) |-> PivotCell(filtered, i, cols[c])]]

ItemSimilarity(filtered) ==
    LET m == UserItemMatrix(filtered)
    IN [i \in DOMAIN m |-> [j \in DOMAIN m |-> CosineSimilarity(m[i], m[j])]]

\* The 'Content' text: author + ' ' + publisher + ' ' + title.
ContentText(row) == row.author \o <<" ">> \o row.publisher \o <<" ">> \o row.title

\* Term vector of a text over the vocabulary Terms (lower-cased tokens;
\* punctuation and blanks are no tokens).
TermVector(text) ==
    [t \in 1..Len(Terms) |->
        Cardinality({j \in 1..Len(text) : Lower(text[j]) = Terms[t]})]

\* books_with_rating['Content'] = ...: the catalog table itself gets the
\* column.
WithContentColumn(catalog) ==
    [k \in 1..Len(catalog) |->
        [isbn |-> catalog[k].isbn, title |-> catalog[k].title,
         author |-> catalog[k].author, publisher |-> catalog[k].publisher,
         avg |-> catalog[k].avg, content |-> ContentText(catalog[k])]]

ContentIndex(catalog) == [k \in 1..Len(catalog) |-> catalog[k].isbn]

ContentVectors(catalog) ==
    [i \in SeqToSet(ContentIndex(catalog)) |->
        LET k == CHOOSE k \in 1..Len(catalog) : catalog[k].isbn = i
        IN TermVector(ContentText(catalog[k]))]

\* fit_transform fails on an empty vocabulary.
EmptyVocabulary(catalog) ==
    \A k \in 1..Len(catalog) : SumSeq(TermVector(ContentText(catalog[k]))) = 0

ContentSimilarity(catalog) ==
    LET m == ContentVectors(catalog)
    IN [i \in DOMAIN m |-> [j \in DOMAIN m |-> CosineSimilarity(m[i], m[j])]]

\* ------------------------------------------------------ query results
Frame(rows) == [kind |-> "frame", rows |-> rows]
Raise(err) == [kind |-> "raise", error |-> err]
Returned(v) == [kind |-> "returned", value |-> v]
NoResult == [kind |-> "none"]
NoCall == [op |-> "none"]

IsbnsOf(rows) == {rows[k].isbn : k \in 1..Len(rows)}

CatalogRowsOf(catalog, isbns) == SelectSeq(catalog, LAMBDA r : r.isbn \in isbns)

\* ------------------------- CollaborativeRecommender / ContentRecommender
\* simdf[isbn].sort_values(ascending=False)
SimilaritySeries(simdf, index, isbn) ==
    SortByScoreDesc([k \in 1..Len(index) |->
                        [isbn |-> index[k], score |-> simdf[index[k]][isbn]]])

\* Variant: drops the first entry, taking the seed to sort first.
SimilarBooksDropFirst(simdf, index, isbn) ==
    Tail(SimilaritySeries(simdf, index, isbn))

\* similar_books[similar_books.index != isbn]
SimilarBooks(simdf, index, isbn) ==
    SelectSeq(SimilaritySeries(simdf, index, isbn), LAMBDA r : r.isbn # isbn)

\* Variant: takes one entry too many.
TopSimilarOneMore(simdf, index, isbn, n) ==
    HeadN(SimilarBooks(simdf, index, isbn), n + 1)

\* similar_books.head(n): the top ISBNs with their similarities.
TopSimilar(simdf, index, isbn, n) == HeadN(SimilarBooks(simdf, index, isbn), n)

\* recommendations['Similarity-Score'] = similarity_scores: the k-th
\* catalog row gets the k-th value.
AttachScores(recs, top) ==
    [k \in 1..Len(recs) |->
        [isbn |-> recs[k].isbn, score |-> top[k].score, col |-> "Similarity-Score"]]

\* Variant: no membership test; a missing column label is a KeyError.
EngineRecommendUnguarded(simdf, index, catalog, isbn, n) ==
    IF isbn \notin SeqToSet(index) THEN Raise("KeyError")
    ELSE LET top == TopSimilar(simdf, index, isbn, n)
             recs == CatalogRowsOf(catalog, IsbnsOf(top))
         IN IF Len(recs) # Len(top) THEN Raise("ValueError")
            ELSE Frame(SortByScoreDesc(AttachScores(recs, top)))

\* recommend(isbn, n) of the collaborative and of the content engine.
EngineRecommend(simdf, index, catalog, isbn, n) ==
    IF isbn \notin SeqToSet(index) THEN Frame(<<>>)
    ELSE LET top == TopSimilar(simdf, index, isbn, n)
             recs == CatalogRowsOf(catalog, IsbnsOf(top))
         IN IF Len(recs) # Len(top) THEN Raise("ValueError")
            ELSE Frame(SortByScoreDesc(AttachScores(recs, top)))

CollabRecommend(isbn, n) ==
    EngineRecommend(item_similarity_df, item_index, books_with_rating, isbn, n)

ContentRecommend(isbn, n) ==
    EngineRecommend(content_similarity_df, content_index, books_with_rating, isbn, n)

\* --------------------------------------------------- HybridRecommender
\* The 'Similarity-Score' of rec_isbn in a candidate list, 0 when absent.
ScoreIn(rows, rec_isbn) ==
    IF rec_isbn \in IsbnsOf(rows)
    THEN rows[CHOOSE k \in 1..Len(rows) :
                 /\ rows[k].isbn = rec_isbn
                 /\ \A j \in 1..(k - 1) : rows[j].isbn # rec_isbn].score
    ELSE 0

\* Variant: the weighted sum divided by the sum of the weights.
HybridScoreNormalised(collab_weight, content_weight, collab_score, content_score) ==
    ((collab_weight * collab_score) + (content_weight * content_score))
        \div (collab_weight + content_weight)

\* (collab_weight * collab_score) + (content_weight * content_score)
HybridScore(collab_weight, content_weight, collab_score, content_score) ==
    (collab_weight * collab_score) + (content_weight * content_score)

HybridScores(collab_rows, content_rows, cw, tw) ==
    [i \in IsbnsOf(collab_rows) \cup IsbnsOf(content_rows) |->
        HybridScore(cw, tw, ScoreIn(collab_rows, i), ScoreIn(content_rows, i))]

\* Variant: sorted without reverse=True, the n lowest candidates.
HybridBottomSets(hybrid_scores, n) ==
    LET all == DOMAIN hybrid_scores
        size == IF n < Cardinality(all) THEN n ELSE Cardinality(all)
    IN {T \in SUBSET all :
          /\ Cardinality(T) = size
          /\ \A x \in T, y \in all \ T : hybrid_scores[x] <= hybrid_scores[y]}

\* sorted(hybrid_scores.items(), key=score, reverse=True)[:n]: the sort is
\* stable over the iteration order of a set of strings, which the
\* interpreter fixes per run; the possible top sets are the sets of
\* min(n, size) candidates that no candidate left out beats.
HybridTopSets(hybrid_scores, n) ==
    LET all == DOMAIN hybrid_scores
        size == IF n < Cardinality(all) THEN n ELSE Cardinality(all)
    IN {T \in SUBSET all :
          /\ Cardinality(T) = size
          /\ \A x \in T, y \in all \ T : hybrid_scores[x] >= hybrid_scores[y]}

\* The merged frame for one top set: catalog rows, scored and sorted.
HybridFrame(catalog, hybrid_scores, top_isbns) ==
    LET recs == CatalogRowsOf(catalog, top_isbns)
    IN Frame(SortByScoreDesc(
           [k \in 1..Len(recs) |->
               [isbn |-> recs[k].isbn, score |-> hybrid_scores[recs[k].isbn],
                col |-> "Hybrid-Score"]]))

\* The possible outcomes of recommend(isbn, n, collab_weight, content_weight).
HybridRecommend(isbn, n, cw, tw) ==
    LET collab_recs == CollabRecommend(isbn, n * 2)
        content_recs == ContentRecommend(isbn, n * 2)
    IN IF collab_recs.kind = "raise" THEN {collab_recs}
       ELSE IF content_recs.kind = "raise" THEN {content_recs}
       ELSE IF collab_recs.rows = <<>> THEN {Frame(HeadN(content_recs.rows, n))}
       ELSE IF content_recs.rows = <<>> THEN {Frame(HeadN(collab_recs.rows, n))}
       ELSE LET hs == HybridScores(collab_recs.rows, content_recs.rows, cw, tw)
            IN {HybridFrame(books_with_rating, hs, T) : T \in HybridTopSets(hs, n)}

\* ------------------------------------------------ PopularityRecommender
\* sort_values(by=['Average-Rating', 'Rating-Count'], ascending=[False,
\* False]): a stable sort on the pair.
RECURSIVE SortByPopularity(_)
SortByPopularity(rows) ==
    IF rows = <<>> THEN <<>>
    ELSE LET Above(a, b) == \/ a.avg > b.avg
                            \/ a.avg = b.avg /\ a.count > b.count
             Same(a, b) == a.avg = b.avg /\ a.count = b.count
             best == CHOOSE i \in 1..Len(rows) :
                        \A j \in 1..Len(rows) :
                            \/ Above(rows[i], rows[j])
                            \/ Same(rows[i], rows[j]) /\ i <= j
         IN <<rows[best]>> \o SortByPopularity(RemoveAt(rows, best))

\* groupby('ISBN')['Book-Rating'].count()
RatingCount(merged, isbn) == Len(RatingsOfIsbn(merged, isbn))

\* pd.merge(books_with_rating, rating_counts, on='ISBN')
PopularBooks(catalog, merged) ==
    LET counted == SelectSeq(catalog, LAMBDA r : RatingCount(merged, r.isbn) > 0)
    IN [k \in 1..Len(counted) |->
          [isbn |-> counted[k].isbn, avg |-> counted[k].avg,
           count |-> RatingCount(merged, counted[k].isbn)]]

\* Variant: a strict comparison with min_ratings.
QualifyingBooksStrict(catalog, merged, min_ratings) ==
    SelectSeq(PopularBooks(catalog, merged), LAMBDA r : r.count > min_ratings)

\* popular_books[popular_books['Rating-Count'] >= min_ratings]
QualifyingBooks(catalog, merged, min_ratings) ==
    SelectSeq(PopularBooks(catalog, merged), LAMBDA r : r.count >= min_ratings)

PopularityRecommend(n, min_ratings) ==
    Frame(HeadN(SortByPopularity(
              QualifyingBooks(books_with_rating, book_rating_merged, min_ratings)), n))

\* ---------------------------------------------- BookRecommendationSystem
\* Title queries: sequences of characters typed by the caller.
TitleInputs ==
    { <<"a">>, <<"A", "b">>, <<".">>, <<"(">>, <<"c">> }

UserInputs == {1, 2, 3}

\* re.compile(book_title): an unbalanced parenthesis is no pattern.
PatternCompiles(pat) == "(" \notin SeqToSet(pat)

\* pattern.search(title) with re.IGNORECASE: '.' matches any character.
PatternFound(pat, title) ==
    \E k \in 1..(Len(title) - Len(pat) + 1) :
        \A j \in 1..Len(pat) :
            pat[j] = "." \/ Lower(pat[j]) = Lower(title[k + j - 1])

\* books_with_rating['Book-Title'].str.contains(book_title, case=False)
MatchingBooks(catalog, pat) ==
    SelectSeq(catalog, LAMBDA r : PatternFound(pat, r.title))

\* self.<name>_recommender.recommend(...): a recommender field that is
\* still None has no attribute 'recommend'.
OnRecommender(name, outcomes) ==
    IF name \in recommenders THEN outcomes ELSE {Raise("AttributeError")}

\* get_popular_books(n, min_ratings)
GetPopularBooks(n, min_ratings) ==
    IF "popularity" \in recommenders THEN PopularityRecommend(n, min_ratings)
    ELSE Raise("AttributeError")

\* The possible outcomes of recommend_by_isbn(isbn, n, method).
RecommendByIsbn(isbn, n, method) ==
    IF method = "popularity"
    THEN OnRecommender("popularity", {PopularityRecommend(n, DefaultMinRatings)})
    ELSE IF method = "collaborative"
    THEN OnRecommender("collaborative", {CollabRecommend(isbn, n)})
    ELSE IF method = "content"
    THEN OnRecommender("content", {ContentRecommend(isbn, n)})
    ELSE IF method = "hybrid"
    THEN OnRecommender("hybrid", HybridRecommend(isbn, n, 1, 1))
    ELSE {Raise("ValueError")}

\* The possible outcomes of recommend_by_title(book_title, n, method); a
\* catalog field that is still None cannot be subscripted.
RecommendByTitle(pat, n, method) ==
    IF "system.books_with_rating" \notin set_fields THEN {Raise("TypeError")}
    ELSE IF ~PatternCompiles(pat) THEN {Raise("re.error")}
    ELSE LET matching_books == MatchingBooks(books_with_rating, pat)
         IN IF matching_books = <<>> THEN {Frame(<<>>)}
            ELSE RecommendByIsbn(matching_books[1].isbn, n, method)

\* user_ratings.sort_values('Book-Rating', ascending=False)
RECURSIVE SortByRatingDesc(_)
SortByRatingDesc(rows) ==
    IF rows = <<>> THEN <<>>
    ELSE LET best == CHOOSE i \in 1..Len(rows) :
                        \A j \in 1..Len(rows) :
                            \/ rows[i].rating > rows[j].rating
                            \/ rows[i].rating = rows[j].rating /\ i <= j
         IN <<rows[best]>> \o SortByRatingDesc(RemoveAt(rows, best))

\* user_ratings.head(3)['ISBN'].tolist()
TopUserBooks(filtered, user) ==
    LET top == HeadN(SortByRatingDesc(RatingsOfUser(filtered, user)), 3)
    IN [k \in 1..Len(top) |-> top[k].isbn]

\* One recommend call of the loop over top_user_books.
SeedRecommend(isbn, n, method) ==
    IF method = "collaborative"
    THEN OnRecommender("collaborative", {CollabRecommend(isbn, n)})
    ELSE IF method = "content"
    THEN OnRecommender("content", {ContentRecommend(isbn, n)})
    ELSE OnRecommender("hybrid", HybridRecommend(isbn, n, 1, 1))

\* The loop and pd.concat: the possible concatenations of the seeds'
\* frames, or the first exception.
RECURSIVE ConcatSeeds(_, _, _)
ConcatSeeds(seeds, n, method) ==
    IF seeds = <<>> THEN {Frame(<<>>)}
    ELSE UNION { IF f.kind = "raise" THEN {f}
                 ELSE { IF rest.kind = "raise" THEN rest
                        ELSE Frame(f.rows \o rest.rows) :
                        rest \in ConcatSeeds(Tail(seeds), n, method) } :
                 f \in SeedRecommend(Head(seeds), n, method) }

\* drop_duplicates(subset='ISBN'): the first row of each ISBN.
DropDuplicates(rows) ==
    LET keep == {k \in 1..Len(rows) : \A j \in 1..(k - 1) : rows[j].isbn # rows[k].isbn}
        order == SortedSeq(keep)
    IN [k \in 1..Len(order) |-> rows[order[k]]]

\* The seeds recommend_for_user passes to an engine.
SeedsQueried(user_id, method) ==
    IF RatingsOfUser(filtered_ratings, user_id) = <<>> THEN <<>>
    ELSE IF method = "popularity" THEN <<>>
    ELSE TopUserBooks(filtered_ratings, user_id)

\* Variant: no fallback for a user without filtered ratings.
RecommendForUserNoFallback(user_id, n, method) ==
    IF "system.filtered_ratings" \notin set_fields THEN {Raise("TypeError")}
    ELSE IF method = "popularity"
    THEN OnRecommender("popularity", {PopularityRecommend(n, DefaultMinRatings)})
    ELSE {Frame(<<>>)}

\* The possible outcomes of recommend_for_user(user_id, n, method).
RecommendForUser(user_id, n, method) ==
    LET user_ratings == RatingsOfUser(filtered_ratings, user_id)
        user_rated_books == {user_ratings[k].isbn : k \in 1..Len(user_ratings)}
    IN IF "system.filtered_ratings" \notin set_fields THEN {Raise("TypeError")}
       ELSE IF user_ratings = <<>>
       THEN OnRecommender("popularity", {PopularityRecommend(n, DefaultMinRatings)})
       ELSE IF method = "popularity"
       THEN OnRecommender("popularity", {PopularityRecommend(n, DefaultMinRatings)})
       ELSE { IF c.kind = "raise" THEN c
              ELSE Frame(HeadN(DropDuplicates(
                       SelectSeq(c.rows, LAMBDA r : r.isbn \notin user_rated_books)), n)) :
              c \in ConcatSeeds(SeedsQueried(user_id, method), n, method) }

\* ------------------------------------------------------------ actions
Init ==
    /\ files_present \in SUBSET AllFiles
    /\ csv_books = IF "books" \in files_present THEN BooksFile ELSE <<>>
    /\ csv_users = IF "users" \in files_present THEN UsersFile ELSE <<>>
    /\ \E prof \in (IF files_present = AllFiles THEN [Isbns -> RatingProfiles]
                    ELSE {[i \in Isbns |-> <<2, 1, NoRating>>]}) :
          csv_ratings = IF "ratings" \in files_present THEN RatingsFile(prof)
                        ELSE <<>>
    /\ set_fields = {}
    /\ books = <<>>
    /\ users = <<>>
    /\ ratings = <<>>
    /\ book_rating_merged = <<>>
    /\ books_with_rating = <<>>
    /\ filtered_ratings = <<>>
    /\ user_item_columns = <<>>
    /\ user_item_matrix = <<>>
    /\ item_index = <<>>
    /\ item_similarity_df = <<>>
    /\ content_index = <<>>
    /\ content_similarity_df = <<>>
    /\ recommenders = {}
    /\ phase = "constructed"
    /\ call = NoCall
    /\ result = NoResult

\* The fields process_all sets when every step has run.
LoaderFields ==
    {"books", "users", "ratings", "book_rating_merged", "books_with_rating"}

\* initialize(): process_all, get_filtered_ratings, then the recommenders
\* in the order popularity, collaborative, content, hybrid.  The
\* collaborative model cannot be built from no ratings, the content model
\* not from an empty vocabulary; the content model writes its 'Content'
\* column before it fits the vocabulary.
Initialize ==
    /\ phase = "constructed"
    /\ set_fields = {}
    /\ call' = [op |-> "initialize"]
    /\ UNCHANGED fileVars
    /\ IF ReadableInOrder(files_present) # AllFiles
       THEN /\ phase' = "failed"
            /\ result' = Raise("RuntimeError")
            /\ set_fields' = ReadableInOrder(files_present)
            /\ books' = IF "books" \in set_fields' THEN csv_books ELSE books
            /\ users' = IF "users" \in set_fields' THEN csv_users ELSE users
            /\ UNCHANGED << ratings, book_rating_merged, books_with_rating,
                            filtered_ratings, user_item_columns, user_item_matrix,
                            item_index, item_similarity_df,
                            content_index, content_similarity_df, recommenders >>
       ELSE LET bks == PreprocessBooks(csv_books)
                merged == MergeRatings(csv_ratings, bks)
                catalog == CreateBooksWithRating(bks, merged)
                filtered == GetFilteredRatings(merged, MinBookRatings, MinUserRatings)
                collab_ok == filtered # <<>>
                content_ok == collab_ok /\ ~EmptyVocabulary(catalog)
            IN /\ books' = bks
               /\ users' = PreprocessUsers(csv_users)
               /\ ratings' = csv_ratings
               /\ book_rating_merged' = merged
               /\ books_with_rating' =
                      IF collab_ok THEN WithContentColumn(catalog) ELSE catalog
               /\ filtered_ratings' = filtered
               /\ set_fields' = LoaderFields \cup
                      {"system.books_with_rating", "system.filtered_ratings"}
               /\ user_item_columns' =
                      IF collab_ok THEN PivotColumns(filtered) ELSE <<>>
               /\ user_item_matrix' =
                      IF collab_ok THEN UserItemMatrix(filtered) ELSE <<>>
               /\ item_index' = IF collab_ok THEN PivotIndex(filtered) ELSE <<>>
               /\ item_similarity_df' =
                      IF collab_ok THEN ItemSimilarity(filtered) ELSE <<>>
               /\ content_index' = IF content_ok THEN ContentIndex(catalog) ELSE <<>>
               /\ content_similarity_df' =
                      IF content_ok THEN ContentSimilarity(catalog) ELSE <<>>
               /\ recommenders' =
                      IF content_ok
                      THEN {"popularity", "collaborative", "content", "hybrid"}
                      ELSE IF collab_ok THEN {"popularity", "collaborative"}
                      ELSE {"popularity"}
               /\ phase' = IF content_ok THEN "ready" ELSE "failed"
               /\ result' = IF content_ok THEN NoResult ELSE Raise("ValueError")

\* The system is initialised and no query is in progress.
Idle == phase = "ready" /\ result = NoResult

\* A facade query can be made once initialize() has returned or raised.
FacadeCallable == phase \in {"ready", "failed"} /\ result = NoResult

\* The caller takes the result of a query, or the exception of initialize().
ReturnToCaller ==
    /\ phase \in {"ready", "failed"}
    /\ result # NoResult
    /\ call' = [op |-> "returned"]
    /\ result' = NoResult
    /\ UNCHANGED dataVars

CallCollabRecommend ==
    /\ Idle
    /\ \E isbn \in QueryIsbns, n \in Ns :
          /\ call' = [op |-> "collaborative", isbn |-> isbn, n |-> n]
          /\ result' = CollabRecommend(isbn, n)
    /\ UNCHANGED dataVars

CallContentRecommend ==
    /\ Idle
    /\ \E isbn \in QueryIsbns, n \in Ns :
          /\ call' = [op |-> "content", isbn |-> isbn, n |-> n]
          /\ result' = ContentRecommend(isbn, n)
    /\ UNCHANGED dataVars

CallHybridRecommend ==
    /\ Idle
    /\ \E isbn \in QueryIsbns, n \in Ns, w \in WeightInputs :
          /\ call' = [op |-> "hybrid", isbn |-> isbn, n |-> n,
                      collab_weight |-> w[1], content_weight |-> w[2]]
          /\ result' \in HybridRecommend(isbn, n, w[1], w[2])
    /\ UNCHANGED dataVars

CallPopularityRecommend ==
    /\ Idle
    /\ \E n \in Ns, min_ratings \in 0..(DefaultMinRatings + 1) :
          /\ call' = [op |-> "popularity", n |-> n, min_ratings |-> min_ratings]
          /\ result' = PopularityRecommend(n, min_ratings)
    /\ UNCHANGED dataVars

\* Variant: the merge with the rating counts is stored back into the
\* shared catalog.
CallGetPopularBooksStoringMerge ==
    /\ FacadeCallable
    /\ \E n \in Ns, min_ratings \in 0..(DefaultMinRatings + 1) :
          /\ call' = [op |-> "get_popular_books", n |-> n, min_ratings |-> min_ratings]
          /\ result' = GetPopularBooks(n, min_ratings)
    /\ books_with_rating' = PopularBooks(books_with_rating, book_rating_merged)
    /\ UNCHANGED << fileVars, modelVars, set_fields, books, users, ratings,
                    book_rating_merged >>

CallGetPopularBooks ==
    /\ FacadeCallable
    /\ \E n \in Ns, min_ratings \in 0..(DefaultMinRatings + 1) :
          /\ call' = [op |-> "get_popular_books", n |-> n, min_ratings |-> min_ratings]
          /\ result' = GetPopularBooks(n, min_ratings)
    /\ UNCHANGED dataVars

CallRecommendByIsbn ==
    /\ FacadeCallable
    /\ \E isbn \in QueryIsbns, n \in Ns, method \in MethodInputs :
          /\ call' = [op |-> "recommend_by_isbn", isbn |-> isbn, n |-> n,
                      method |-> method]
          /\ result' \in RecommendByIsbn(isbn, n, method)
    /\ UNCHANGED dataVars

CallRecommendByTitle ==
    /\ FacadeCallable
    /\ \E pat \in TitleInputs, n \in Ns, method \in MethodInputs :
          /\ call' = [op |-> "recommend_by_title", book_title |-> pat, n |-> n,
                      method |-> method]
          /\ result' \in RecommendByTitle(pat, n, method)
    /\ UNCHANGED dataVars

CallRecommendForUser ==
    /\ FacadeCallable
    /\ \E user_id \in UserInputs, n \in Ns, method \in MethodInputs :
          /\ call' = [op |-> "recommend_for_user", user_id |-> user_id, n |-> n,
                      method |-> method, seeds |-> SeedsQueried(user_id, method)]
          /\ result' \in RecommendForUser(user_id, n, method)
    /\ UNCHANGED dataVars

\* ---------------------------------------------- calls on a DataLoader
loaderVars == << set_fields, books, users, ratings, book_rating_merged,
                 books_with_rating >>

\* load_data(): True when all three files were read.
CallLoadData ==
    LET got == ReadableInOrder(files_present)
    IN /\ call' = [op |-> "load_data"]
       /\ books' = IF "books" \in got THEN csv_books ELSE books
       /\ users' = IF "users" \in got THEN csv_users ELSE users
       /\ ratings' = IF "ratings" \in got THEN csv_ratings ELSE ratings
       /\ set_fields' = set_fields \cup got
       /\ result' = Returned(got = AllFiles)
       /\ UNCHANGED << fileVars, modelVars, book_rating_merged, books_with_rating >>

CallPreprocessBooks ==
    /\ call' = [op |-> "preprocess_books"]
    /\ IF "books" \notin set_fields
       THEN /\ result' = Raise("ValueError")
            /\ UNCHANGED books
       ELSE /\ result' = Returned(<<>>)
            /\ books' = PreprocessBooks(books)
    /\ UNCHANGED << fileVars, modelVars, set_fields, users, ratings,
                    book_rating_merged, books_with_rating >>

CallPreprocessUsers ==
    /\ call' = [op |-> "preprocess_users"]
    /\ IF "users" \notin set_fields
       THEN /\ result' = Raise("ValueError")
            /\ UNCHANGED users
       ELSE /\ result' = Returned(<<>>)
            /\ users' = PreprocessUsers(users)
    /\ UNCHANGED << fileVars, modelVars, set_fields, books, ratings,
                    book_rating_merged, books_with_rating >>

\* preprocess_ratings(): pd.merge rejects a books table that is None.
CallPreprocessRatings ==
    /\ call' = [op |-> "preprocess_ratings"]
    /\ IF "ratings" \notin set_fields
       THEN /\ result' = Raise("ValueError")
            /\ UNCHANGED << set_fields, book_rating_merged >>
       ELSE IF "books" \notin set_fields
       THEN /\ result' = Raise("TypeError")
            /\ UNCHANGED << set_fields, book_rating_merged >>
       ELSE /\ result' = Returned(<<>>)
            /\ book_rating_merged' = MergeRatings(ratings, books)
            /\ set_fields' = set_fields \cup {"book_rating_merged"}
    /\ UNCHANGED << fileVars, modelVars, books, users, ratings, books_with_rating >>

CallCreateBooksWithRating ==
    /\ call' = [op |-> "create_books_with_rating"]
    /\ IF "book_rating_merged" \notin set_fields
       THEN /\ result' = Raise("ValueError")
            /\ UNCHANGED << set_fields, books_with_rating >>
       ELSE IF "books" \notin set_fields
       THEN /\ result' = Raise("TypeError")
            /\ UNCHANGED << set_fields, books_with_rating >>
       ELSE /\ result' = Returned(<<>>)
            /\ books_with_rating' = CreateBooksWithRating(books, book_rating_merged)
            /\ set_fields' = set_fields \cup {"books_with_rating"}
    /\ UNCHANGED << fileVars, modelVars, books, users, ratings, book_rating_merged >>

CallGetFilteredRatings ==
    /\ \E min_book_ratings \in 1..MinBookRatings, min_user_ratings \in 1..MinUserRatings :
          /\ call' = [op |-> "get_filtered_ratings",
                      min_book_ratings |-> min_book_ratings,
                      min_user_ratings |-> min_user_ratings]
          /\ result' = IF "book_rating_merged" \notin set_fields
                       THEN Raise("ValueError")
                       ELSE Returned(GetFilteredRatings(book_rating_merged,
                                         min_book_ratings, min_user_ratings))
    /\ UNCHANGED << fileVars, modelVars, loaderVars >>

\* process_all(): load_data, then the four steps in order.
CallProcessAll ==
    LET got == ReadableInOrder(files_present)
        bks == PreprocessBooks(csv_books)
        merged == MergeRatings(csv_ratings, bks)
    IN /\ call' = [op |-> "process_all"]
       /\ result' = Returned(got = AllFiles)
       /\ set_fields' = IF got = AllFiles THEN set_fields \cup LoaderFields
                        ELSE set_fields \cup got
       /\ books' = IF got = AllFiles THEN bks
                   ELSE IF "books" \in got THEN csv_books ELSE books
       /\ users' = IF got = AllFiles THEN PreprocessUsers(csv_users)
                   ELSE IF "users" \in got THEN csv_users ELSE users
       /\ ratings' = IF got = AllFiles THEN csv_ratings ELSE ratings
       /\ book_rating_merged' = IF got = AllFiles THEN merged ELSE book_rating_merged
       /\ books_with_rating' =
              IF got = AllFiles THEN CreateBooksWithRating(bks, merged)
              ELSE books_with_rating
       /\ UNCHANGED << fileVars, modelVars >>

\* Calls on the recommender objects.
Next ==
    \/ Initialize
    \/ CallCollabRecommend
    \/ CallContentRecommend
    \/ CallHybridRecommend
    \/ CallPopularityRecommend
    \/ ReturnToCaller

Spec == Init /\ [][Next]_vars

\* Calls on the BookRecommendationSystem facade.
NextFacade ==
    \/ Initialize
    \/ CallGetPopularBooks
    \/ CallRecommendByIsbn
    \/ CallRecommendByTitle
    \/ CallRecommendForUser
    \/ ReturnToCaller

SpecFacade == Init /\ [][NextFacade]_vars

\* Calls on a DataLoader, in any order; every book of the Ratings file has
\* the same ratings.
InitLoader ==
    /\ Init
    /\ \E p \in RatingProfiles :
          csv_ratings \in {<<>>, RatingsFile([i \in Isbns |-> p])}

NextLoader ==
    \/ CallLoadData
    \/ CallPreprocessBooks
    \/ CallPreprocessUsers
    \/ CallPreprocessRatings
    \/ CallCreateBooksWithRating
    \/ CallGetFilteredRatings
    \/ CallProcessAll

SpecLoader == InitLoader /\ [][NextLoader]_vars

\* ------------------------------------------------------------ claims
Min(a, b) == IF a < b THEN a ELSE b

NoRepeatedIsbn(rows) ==
    \A j, k \in 1..Len(rows) : rows[j].isbn = rows[k].isbn => j = k

NonIncreasingScore(rows) ==
    \A k \in 1..(Len(rows) - 1) : rows[k].score >= rows[k + 1].score

\* The score a candidate list reports for an ISBN, 0 when it has no row.
ListedScore(rows, i) ==
    IF \E k \in 1..Len(rows) : rows[k].isbn = i
    THEN rows[CHOOSE k \in 1..Len(rows) : rows[k].isbn = i].score
    ELSE 0

EngineCall == call.op \in {"collaborative", "content"}

\* The similarity matrix and the index of the engine the last call queried.
CalledSim == IF call.op = "collaborative" THEN item_similarity_df
             ELSE content_similarity_df
CalledIndex == IF call.op = "collaborative" THEN SeqToSet(item_index)
               ELSE SeqToSet(content_index)

\* C1: for a seed in the engine's index, the rows returned by the
\* collaborative and by the content engine are the n non-seed items of
\* highest similarity to the seed, and each row's score is the similarity of
\* the seed and that row's own ISBN.
C1_TopNWithOwnScores ==
    (EngineCall /\ call.isbn \in CalledIndex) =>
        LET others == CalledIndex \ {call.isbn}
            got == IsbnsOf(result.rows)
        IN /\ result.kind = "frame"
           /\ Len(result.rows) = Min(call.n, Cardinality(others))
           /\ NoRepeatedIsbn(result.rows)
           /\ got \subseteq others
           /\ \A x \in got, y \in others \ got :
                 CalledSim[x][call.isbn] >= CalledSim[y][call.isbn]
           /\ \A k \in 1..Len(result.rows) :
                 result.rows[k].score = CalledSim[result.rows[k].isbn][call.isbn]

\* C2: when the collaborative engine returns nothing for the seed and the
\* content engine returns rows, the hybrid result is the content engine's
\* result for the same n: same ISBNs, same order, same scores.
C2_FallbackEqualsContent ==
    ( /\ call.op = "hybrid"
      /\ CollabRecommend(call.isbn, call.n) = Frame(<<>>)
      /\ ContentRecommend(call.isbn, call.n).kind = "frame"
      /\ ContentRecommend(call.isbn, call.n).rows # <<>> ) =>
        result = ContentRecommend(call.isbn, call.n)

\* The two candidate lists of the last hybrid call.
CollabCandidates == CollabRecommend(call.isbn, 2 * call.n)
ContentCandidates == ContentRecommend(call.isbn, 2 * call.n)

BothCandidateLists ==
    /\ call.op = "hybrid"
    /\ CollabCandidates.kind = "frame" /\ CollabCandidates.rows # <<>>
    /\ ContentCandidates.kind = "frame" /\ ContentCandidates.rows # <<>>

\* collab_weight * c + content_weight * t for one candidate.
BlendedScore(i) ==
    call.collab_weight * ListedScore(CollabCandidates.rows, i)
    + call.content_weight * ListedScore(ContentCandidates.rows, i)

\* C3: when both engines return candidates, every row of the hybrid result
\* carries collab_weight * c + content_weight * t, with c and t the scores
\* of its ISBN in the two 2n-candidate lists (0 when absent); the weights
\* are not normalised.
C3_HybridScoreIsWeightedSum ==
    BothCandidateLists =>
        /\ result.kind = "frame"
        /\ \A k \in 1..Len(result.rows) :
              result.rows[k].score = BlendedScore(result.rows[k].isbn)

C3_Witness ==
    /\ BothCandidateLists
    /\ call.collab_weight = 2 /\ call.content_weight = 1
    /\ \E k \in 1..Len(result.rows) :
          /\ ListedScore(CollabCandidates.rows, result.rows[k].isbn) > 0
          /\ ListedScore(ContentCandidates.rows, result.rows[k].isbn) > 0
          /\ ListedScore(CollabCandidates.rows, result.rows[k].isbn)
               # ListedScore(ContentCandidates.rows, result.rows[k].isbn)
    /\ \E k \in 1..Len(result.rows) :
          result.rows[k].isbn \notin IsbnsOf(CollabCandidates.rows)

\* C4: when both engines return candidates, the hybrid rows are in
\* non-increasing hybrid score, repeat no ISBN, are at most n, and are the
\* top n of the union of the two 2n-candidate lists: no candidate left out
\* has a strictly higher hybrid score than a returned one.
C4_HybridTopOfUnion ==
    BothCandidateLists =>
        LET union == IsbnsOf(CollabCandidates.rows) \cup IsbnsOf(ContentCandidates.rows)
            got == IsbnsOf(result.rows)
        IN /\ result.kind = "frame"
           /\ NonIncreasingScore(result.rows)
           /\ NoRepeatedIsbn(result.rows)
           /\ Len(result.rows) = Min(call.n, Cardinality(union))
           /\ got \subseteq union
           /\ \A x \in got, y \in union \ got : BlendedScore(y) <= BlendedScore(x)

C4_Witness ==
    /\ BothCandidateLists
    /\ Len(result.rows) = 2
    /\ result.rows[1].score > result.rows[2].score
    /\ \E y \in (IsbnsOf(CollabCandidates.rows) \cup IsbnsOf(ContentCandidates.rows))
                 \ IsbnsOf(result.rows) :
          BlendedScore(y) < result.rows[2].score

\* C5: no row of a collaborative, content or hybrid result has the seed's
\* ISBN, also when the seed's vector has zero norm or the seed ties with
\* other items at the maximum similarity.
C5_SeedNeverReturned ==
    (call.op \in {"collaborative", "content", "hybrid"} /\ result.kind = "frame") =>
        call.isbn \notin IsbnsOf(result.rows)

\* A collaborative query for a zero-norm seed (its similarity to itself is
\* 0, as to every other item) that returns rows.
C5_Witness ==
    /\ call.op = "collaborative"
    /\ call.isbn \in SeqToSet(item_index)
    /\ item_similarity_df[call.isbn][call.isbn] = 0
    /\ result.kind = "frame"
    /\ Len(result.rows) = 2

\* C6: for a seed in the engine's index, the collaborative and the content
\* engine return at most n rows, and exactly n when the index holds at
\* least n items other than the seed.
C6_RowCount ==
    (EngineCall /\ call.isbn \in CalledIndex) =>
        /\ result.kind = "frame"
        /\ Len(result.rows) <= call.n
        /\ Cardinality(CalledIndex \ {call.isbn}) >= call.n
             => Len(result.rows) = call.n

C6_Witness ==
    /\ EngineCall
    /\ call.isbn \in CalledIndex
    /\ call.n = 2
    /\ Cardinality(CalledIndex \ {call.isbn}) > 2
    /\ result.kind = "frame"
    /\ Len(result.rows) = 2

\* C7: a collaborative, content or hybrid query never raises; for a seed
\* that is in no similarity index the engine consults, the result is empty.
C7_NeverRaises ==
    (call.op \in {"collaborative", "content", "hybrid"}) =>
        /\ result.kind = "frame"
        /\ (call.op = "collaborative" /\ call.isbn \notin SeqToSet(item_index))
             => result.rows = <<>>
        /\ (call.op \in {"content", "hybrid"} /\ call.isbn \notin SeqToSet(content_index))
             => result.rows = <<>>

\* A collaborative query for a catalog book that the rating thresholds
\* keep out of the index.
C7_Witness ==
    /\ call.op = "collaborative"
    /\ call.n = 2
    /\ Len(item_index) > 2
    /\ call.isbn \in IsbnsOf(books_with_rating)
    /\ call.isbn \notin SeqToSet(item_index)
    /\ result = Frame(<<>>)

\* Rating count of a book over the whole merged interaction log.
LogCount(i) ==
    Cardinality({k \in 1..Len(book_rating_merged) : book_rating_merged[k].isbn = i})

CatalogAvg(i) ==
    books_with_rating[CHOOSE k \in 1..Len(books_with_rating) :
                          books_with_rating[k].isbn = i].avg

RanksAbove(a, b) ==
    \/ CatalogAvg(a) > CatalogAvg(b)
    \/ CatalogAvg(a) = CatalogAvg(b) /\ LogCount(a) > LogCount(b)

\* C8: PopularityRecommender.recommend(n, min_ratings) returns at most n
\* rows, each with a rating count over the unfiltered log of at least
\* min_ratings, consecutive rows non-increasing in (average rating, rating
\* count), no qualifying book left out ranking strictly above a returned
\* one, and an empty result, not an error, when no book qualifies.
C8_PopularityRanking ==
    (call.op = "popularity") =>
        LET rows == result.rows
            got == IsbnsOf(rows)
            qualifying == {i \in IsbnsOf(books_with_rating) : LogCount(i) >= call.min_ratings}
        IN /\ result.kind = "frame"
           /\ Len(rows) <= call.n
           /\ got \subseteq IsbnsOf(books_with_rating)
           /\ \A k \in 1..Len(rows) :
                 /\ rows[k].count = LogCount(rows[k].isbn)
                 /\ rows[k].avg = CatalogAvg(rows[k].isbn)
                 /\ rows[k].count >= call.min_ratings
           /\ \A k \in 1..(Len(rows) - 1) : ~RanksAbove(rows[k + 1].isbn, rows[k].isbn)
           /\ \A x \in got, y \in qualifying \ got : ~RanksAbove(y, x)
           /\ qualifying = {} => rows = <<>>

\* Two rows of different rank, a qualifying book left out and a catalog
\* book below min_ratings.
C8_Witness ==
    /\ call.op = "popularity"
    /\ call.n = 2
    /\ Len(result.rows) = 2
    /\ RanksAbove(result.rows[1].isbn, result.rows[2].isbn)
    /\ \E y \in IsbnsOf(books_with_rating) \ IsbnsOf(result.rows) :
          LogCount(y) >= call.min_ratings
    /\ \E y \in IsbnsOf(books_with_rating) : LogCount(y) < call.min_ratings

MethodCall ==
    call.op \in {"recommend_by_isbn", "recommend_by_title", "recommend_for_user"}

\* C9: on recommend_by_isbn, recommend_by_title and recommend_for_user a
\* method outside {popularity, collaborative, content, hybrid} is a hard
\* failure reported to the caller, never a normal result.
C9_UnknownMethodFails ==
    (MethodCall /\ call.method \notin Methods) => result.kind = "raise"

\* The title contains the text as a substring, ignoring case.
ContainsIgnoringCase(title, text) ==
    \E k \in 1..(Len(title) - Len(text) + 1) :
        \A j \in 1..Len(text) : Lower(text[j]) = Lower(title[k + j - 1])

\* C10: on the initialised system, recommend_by_title(text, n, method)
\* returns what recommend_by_isbn(i, n, method) returns for the first
\* catalog row i whose title contains the text ignoring case, and an empty
\* result, raising nothing, when no title contains it.
C10_TitleResolvesToFirstMatch ==
    (call.op = "recommend_by_title" /\ phase = "ready") =>
        LET containing == SelectSeq(books_with_rating,
                              LAMBDA r : ContainsIgnoringCase(r.title, call.book_title))
        IN IF containing = <<>> THEN result = Frame(<<>>)
           ELSE result \in RecommendByIsbn(containing[1].isbn, call.n, call.method)

\* The rows of the filtered interaction log of the user of the last call.
CalledUserRows == RatingsOfUser(filtered_ratings, call.user_id)

\* C11: for a user with no row in the filtered interaction log and a valid
\* method, recommend_for_user(user_id, n, method) returns the sequence
\* get_popular_books(n) returns with its default min_ratings, and passes no
\* seed to an engine.
C11_NoHistoryFallsBackToPopular ==
    ( /\ call.op = "recommend_for_user"
      /\ call.method \in Methods
      /\ "system.filtered_ratings" \in set_fields
      /\ CalledUserRows = <<>> ) =>
        /\ result = GetPopularBooks(call.n, GetPopularBooksDefault)
        /\ call.seeds = <<>>

\* A content query for a user whose only ratings were filtered away, with
\* two popular books to return.
C11_Witness ==
    /\ call.op = "recommend_for_user"
    /\ call.method = "content"
    /\ call.n = 2
    /\ "system.filtered_ratings" \in set_fields
    /\ CalledUserRows = <<>>
    /\ RatingsOfUser(book_rating_merged, call.user_id) # <<>>
    /\ result.kind = "frame"
    /\ Len(result.rows) = 2

\* The ISBNs the user of the last call has rated in the interaction log.
CalledUserRated ==
    IsbnsOf(RatingsOfUser(book_rating_merged, call.user_id))

\* C12: for a user with at least one row in the filtered interaction log
\* and any of the four methods, recommend_for_user returns at most n rows,
\* no ISBN twice, and no book the user has rated in the interaction log,
\* whether or not that rating survived the minimum-activity filter.
C12_UserResultExcludesRated ==
    ( /\ call.op = "recommend_for_user"
      /\ call.method \in Methods
      /\ CalledUserRows # <<>> ) =>
        /\ result.kind = "frame"
        /\ Len(result.rows) <= call.n
        /\ NoRepeatedIsbn(result.rows)
        /\ IsbnsOf(result.rows) \cap CalledUserRated = {}

\* C13: the rows recommend_for_user returns for the collaborative, content
\* and hybrid methods are in non-increasing order of score across the whole
\* sequence, also when they come from the concatenated results of two or
\* three seed books of the user.
C13_UserResultSortedByScore ==
    ( /\ call.op = "recommend_for_user"
      /\ call.method \in {"collaborative", "content", "hybrid"}
      /\ CalledUserRows # <<>> ) =>
        /\ result.kind = "frame"
        /\ NonIncreasingScore(result.rows)

\* C14: when the data loader fails to load its inputs, initialize() raises
\* RuntimeError and builds nothing: no recommender is set, the catalog and
\* the filtered-log field of the system stay unset, and every later query
\* raises instead of answering; a recommender is only ever set when
\* process_all has run all its steps.
C14_LoadFailureBuildsNothing ==
    /\ (files_present # AllFiles /\ phase # "constructed") =>
          /\ phase = "failed"
          /\ recommenders = {}
          /\ "system.books_with_rating" \notin set_fields
          /\ "system.filtered_ratings" \notin set_fields
          /\ call.op = "initialize" => result = Raise("RuntimeError")
          /\ result.kind # "frame"
    /\ recommenders # {} =>
          /\ files_present = AllFiles
          /\ LoaderFields \subseteq set_fields

\* A query after an initialize() whose load_data read the Books file and
\* then failed on the Users file.
C14_Witness ==
    /\ files_present = {"books", "ratings"}
    /\ phase = "failed"
    /\ set_fields = {"books"}
    /\ call.op = "recommend_by_isbn"
    /\ call.method = "popularity"
    /\ result = Raise("AttributeError")

\* The tables and matrices are the ones initialize() builds from the input
\* files.
TablesAsBuilt ==
    /\ books = PreprocessBooks(csv_books)
    /\ ratings = csv_ratings
    /\ book_rating_merged = MergeRatings(csv_ratings, books)
    /\ books_with_rating =
          WithContentColumn(CreateBooksWithRating(books, book_rating_merged))
    /\ filtered_ratings =
          GetFilteredRatings(book_rating_merged, MinBookRatings, MinUserRatings)
    /\ user_item_columns = PivotColumns(filtered_ratings)
    /\ user_item_matrix = UserItemMatrix(filtered_ratings)
    /\ item_index = PivotIndex(filtered_ratings)
    /\ item_similarity_df = ItemSimilarity(filtered_ratings)
    /\ content_index = ContentIndex(books_with_rating)
    /\ content_similarity_df = ContentSimilarity(books_with_rating)

\* The result of the last query is one the query computes from its
\* arguments and the tables.
ResultFromArguments ==
    /\ call.op = "get_popular_books" =>
          result = GetPopularBooks(call.n, call.min_ratings)
    /\ call.op = "recommend_by_isbn" =>
          result \in RecommendByIsbn(call.isbn, call.n, call.method)
    /\ call.op = "recommend_by_title" =>
          result \in RecommendByTitle(call.book_title, call.n, call.method)
    /\ call.op = "recommend_for_user" =>
          result \in RecommendForUser(call.user_id, call.n, call.method)

\* C15: once initialize() has completed, whatever queries have run, the
\* catalog, the full and the filtered interaction log, the user-item matrix
\* and both similarity matrices are as initialize() built them, and the
\* result of a query is determined by its arguments and those tables.
C15_QueriesLeaveTablesUnchanged ==
    phase = "ready" => (TablesAsBuilt /\ ResultFromArguments)

\* A title query answered by the hybrid engine with two rows.
C15_Witness ==
    /\ phase = "ready"
    /\ call.op = "recommend_by_title"
    /\ call.method = "hybrid"
    /\ result.kind = "frame"
    /\ Len(result.rows) = 2

\* Rating count of a user over the whole merged interaction log.
UserLogCount(u) ==
    Cardinality({k \in 1..Len(book_rating_merged) : book_rating_merged[k].user = u})

\* The ISBNs with at least min_book_ratings ratings and the users with at
\* least min_user_ratings ratings.
BooksOverThreshold ==
    {i \in IsbnsOf(book_rating_merged) : LogCount(i) >= MinBookRatings}
UsersOverThreshold ==
    {u \in {book_rating_merged[k].user : k \in 1..Len(book_rating_merged)} :
        UserLogCount(u) >= MinUserRatings}

\* C16: the user-item matrix of the collaborative engine has as rows
\* exactly the ISBNs with at least min_book_ratings ratings and as columns
\* exactly the users with at least min_user_ratings ratings, counted over
\* the interaction log, with 0 in every unobserved cell; the item-item
\* similarity matrix has that row set on both axes.
C16_MatrixAxesAreThresholdSets ==
    ("collaborative" \in recommenders) =>
        /\ SeqToSet(item_index) = BooksOverThreshold
        /\ DOMAIN user_item_matrix = BooksOverThreshold
        /\ SeqToSet(user_item_columns) = UsersOverThreshold
        /\ \A i \in DOMAIN user_item_matrix :
              /\ Len(user_item_matrix[i]) = Len(user_item_columns)
              /\ \A c \in 1..Len(user_item_columns) :
                    (\A k \in 1..Len(book_rating_merged) :
                        ~(/\ book_rating_merged[k].isbn = i
                          /\ book_rating_merged[k].user = user_item_columns[c]))
                    => user_item_matrix[i][c] = 0
        /\ DOMAIN item_similarity_df = BooksOverThreshold
        /\ \A i \in DOMAIN item_similarity_df :
              DOMAIN item_similarity_df[i] = BooksOverThreshold

\* The catalog the loader created and handed to the popularity and the
\* collaborative engine, before the content engine was constructed.
CatalogBeforeContent == CreateBooksWithRating(books, book_rating_merged)

\* C17: constructing the content engine does not change the shared catalog:
\* after the construction the catalog has the rows and the set of columns
\* it had before, the author+publisher+title text being no column of it.
C17_ContentLeavesCatalogUnchanged ==
    ("content" \in recommenders) =>
        /\ Len(books_with_rating) = Len(CatalogBeforeContent)
        /\ \A k \in 1..Len(books_with_rating) :
              /\ DOMAIN books_with_rating[k] = DOMAIN CatalogBeforeContent[k]
              /\ books_with_rating[k].isbn = CatalogBeforeContent[k].isbn

\* C18: the content engine's index holds every book of the cleaned book
\* table, however many ratings it has, so a content query, and a hybrid
\* query through its content fallback, for a cleaned book returns rows even
\* when the book has no rating in the interaction log; the result is empty
\* for want of the seed only when the ISBN is no cleaned book.
C18_ContentIndexHoldsEveryCleanedBook ==
    ("content" \in recommenders) =>
        /\ SeqToSet(content_index) = IsbnsOf(books)
        /\ ( /\ call.op \in {"content", "hybrid"}
             /\ call.isbn \in IsbnsOf(books)
             /\ call.n > 0
             /\ Cardinality(IsbnsOf(books)) > 1 ) =>
               (result.kind = "frame" /\ result.rows # <<>>)
        /\ (call.op \in {"content", "hybrid"} /\ call.isbn \notin IsbnsOf(books)) =>
               result = Frame(<<>>)

\* The field a step tests before it does anything.
Prerequisite(op) ==
    IF op = "preprocess_books" THEN {"books"}
    ELSE IF op = "preprocess_users" THEN {"users"}
    ELSE IF op = "preprocess_ratings" THEN {"ratings"}
    ELSE IF op \in {"create_books_with_rating", "get_filtered_ratings"}
    THEN {"book_rating_merged"}
    ELSE {}

\* The fields a step reads.
TablesRead(op) ==
    IF op = "preprocess_ratings" THEN {"ratings", "books"}
    ELSE IF op = "create_books_with_rating" THEN {"book_rating_merged", "books"}
    ELSE Prerequisite(op)

\* One step of a DataLoader: it raises ValueError and changes no field when
\* its prerequisite is unset, raises nothing else, and otherwise reads
\* tables that are set.
LoaderStepRespectsPrerequisites ==
    /\ ~(Prerequisite(call'.op) \subseteq set_fields) =>
          (result' = Raise("ValueError") /\ UNCHANGED loaderVars)
    /\ result'.kind = "raise" =>
          (result'.error = "ValueError" /\ UNCHANGED loaderVars)
    /\ result'.kind # "raise" => TablesRead(call'.op) \subseteq set_fields
    /\ "ratings" \in set_fields' => {"books", "users"} \subseteq set_fields'
    /\ "book_rating_merged" \in set_fields' => {"books", "ratings"} \subseteq set_fields'

\* C19: in any sequence of DataLoader calls, a step called before its
\* prerequisite raises ValueError and changes no field of the loader
\* (preprocess_books, preprocess_users and preprocess_ratings until
\* load_data has set their table, create_books_with_rating and
\* get_filtered_ratings until preprocess_ratings has completed), and a step
\* that does not raise ValueError reads only tables that are set: ratings
\* loaded implies books and users loaded, also after a load_data that
\* failed part-way.
C19_LoaderPrerequisites == [][LoaderStepRespectsPrerequisites]_vars

\* After a load_data that read the books and the users and failed on the
\* ratings, preprocess_books has run and preprocess_ratings has raised.
C19_Witness ==
    /\ files_present = {"books", "users"}
    /\ set_fields = {"books", "users"}
    /\ books = PreprocessBooks(csv_books)
    /\ books # csv_books
    /\ call.op = "preprocess_ratings"
    /\ result = Raise("ValueError")

====
